---- MODULE Spec2Model ----
(***************************************************************************)
(* GUFY: the main window (UI thread), the progress dialog, the plot        *)
(* workers running in their QThread, the plot windows and the parameter    *)
(* store Param_Dict with its Single/Series copies.                         *)
(***************************************************************************)
EXTENDS Integers, Naturals, Sequences, FiniteSets, TLC

\* ------------------------------------------------------------------ bounds
MaxLen == 3        \* longest series that is loaded
MaxOps == 2        \* plot operations started in one behaviour
MaxLoads == 2      \* load attempts (file or series) in one behaviour
MaxPlotAll == 1    \* operations so far when the last plot-all may start
MaxEdits == 2      \* changes of plot mode, settings and view in one behaviour

\* --------------------------------------------------------------- constants
PlotModes == {"Slice", "Projection", "Phase", "Line", "Profile"}
EvalModes == {"Single", "Series"}

NoDataSet == 0                 \* Param_Dict["CurrentDataSet"] = ""
FileDataSet == 10              \* dataset returned by yt.load for a file name
LoneDataSet == 11              \* single dataset returned for a series name
FileName == "file"             \* the name chosen in the file dialog
EnteredName == "name"          \* the name given to askSeriesName
SeriesDataSet(i) == i + 1      \* DataSeries[i], i = 0 .. len-1

DataSetPlotWindow == 0         \* the plot window of single file mode
SeriesPlotWindow(i) == i + 1   \* DataSetDict[str(DataSeries[i]) + "PlotWindow"]
Windows == 0 .. MaxLen

\* integer division where the code rounds up
floorDiv(a, b) == a \div b

\* math.ceil(a / b)
ceil(a, b) == (a + b - 1) \div b

DomainWidth == 2000            \* ds.domain_width in the grid unit
FieldMin == 1000               \* minimum of a field as calcExtrema returns it
ZMinInputs == {1230, 1234}     \* numbers typed into the ZMin edit
XMinInputs == {1230, 1234}     \* numbers typed into the XMin edit
WidthInputs == {2000, 2468}    \* numbers typed into the HorWidth edit
ZoomInputs == {1, 2}           \* numbers typed into the Zoom edit
PanXMin == 5000                \* left x limit after panning with the toolbar
PanWidth == 500                \* x extent after zooming with the toolbar

\* "{0:.3g}".format(x) read back with float(), for 0 <= x < 10000
Fmt3g(x) == IF x < 1000 THEN x ELSE ((x + 5) \div 10) * 10

VARIABLES
    Param_Dict,      \* the live parameter store (Window.Param_Dict)
    Single_Copy,     \* SignalHandler.Single_Copy
    Series_Copy,     \* SignalHandler.Series_Copy
    slider,          \* Misc_Dict["SeriesSlider"].value()
    uiPc,            \* where the UI thread is: idle, in a prompt, in a handler
    dialog,          \* the modal dialog that is open: none, plotAll, progress
    plotAllDialog,   \* PlotAllDialog attributes
    progressDialog,  \* ProgressDialog attributes (bars, cancel button)
    worker,          \* Window.progressWorker
    thread,          \* Window.thread
    queue,           \* signals posted to the UI thread, in emission order
    windows,         \* the PlotWindow objects
    orphans,         \* workers still running whose reference was overwritten
    feedback,        \* calls of giveSingleFeedback / giveMultipleFeedback
    opCount,         \* plot operations started so far
    loads,           \* load attempts so far
    edits            \* edits of settings and view so far

vars == <<Param_Dict, Single_Copy, Series_Copy, slider, uiPc, dialog,
          plotAllDialog, progressDialog, worker, thread, queue, windows,
          orphans, feedback, opCount, loads, edits>>

\* ------------------------------------------------------------ initial state
createParam_Dict ==
    [EvalMode |-> "Single", PlotMode |-> "Slice",
     isValidFile |-> FALSE, isValidSeries |-> FALSE,
     Filename |-> "No file selected", Seriesname |-> "",
     CurrentDataSet |-> NoDataSet, SingleDataSet |-> NoDataSet,
     DataSeries |-> 0,
     CurrentPlotWindow |-> DataSetPlotWindow,
     isValidPlot |-> "",
     Timestamp |-> TRUE,
     XMin |-> 0, ZMin |-> 0, HorWidth |-> 0, Zoom |-> 1,
     FieldMins |-> {}]

NewPlotWindow ==
    [figure |-> [st |-> "empty", op |-> 0],
     plot |-> 0, arr |-> 0,
     xlim |-> [min |-> 0, width |-> 0],
     Param_Dict |-> createParam_Dict,
     created |-> createParam_Dict,
     restoreSettings |-> FALSE]

WorkerBase ==
    [pc |-> "idle", kind |-> "PlotSingle", _isRunning |-> TRUE,
     j |-> 0, exc |-> "none",
     plotted |-> <<>>, finishedLog |-> <<>>, started |-> {},
     before |-> <<>>]

makeInitialCopy(P) == [P EXCEPT !.EvalMode = "Series"]

Init ==
    /\ Param_Dict = createParam_Dict
    /\ Single_Copy = createParam_Dict
    /\ Series_Copy = makeInitialCopy(createParam_Dict)
    /\ slider = 0
    /\ uiPc = "idle"
    /\ dialog = "none"
    /\ plotAllDialog = [length |-> 0, onlyEvery |-> 1, plotNumber |-> 0,
                        button |-> 0, makeMovie |-> FALSE,
                        Request_Dict |-> [OnlyEvery |-> 1, Length |-> 0,
                                          MakeMovie |-> FALSE, PlotNumber |-> 0]]
    /\ progressDialog = [mode |-> "PlotSingle", progressBar |-> 0, length |-> 0,
                         multipleProgressBar |-> 0, multiMax |-> 0,
                         cancelButton |-> TRUE, feedbackConnected |-> FALSE]
    /\ worker = WorkerBase
    /\ thread = "none"
    /\ queue = <<>>
    /\ windows = [w \in Windows |-> NewPlotWindow]
    /\ orphans = 0
    /\ feedback = <<>>
    /\ opCount = 0
    /\ loads = 0
    /\ edits = 0

\* ------------------------------------------------- the parameter store
SeriesDataSets(P) == {SeriesDataSet(i) : i \in 0 .. (P.DataSeries - 1)}

\* nameList.index(str(CurrentDataSet)) raises ValueError when it is absent
findIndexRaises(P) == P.CurrentDataSet \notin SeriesDataSets(P)
findIndex(P) == P.CurrentDataSet - 1

getSliderInput(P, value) ==
    [P EXCEPT !.CurrentPlotWindow = SeriesPlotWindow(value),
              !.CurrentDataSet = SeriesDataSet(value)]

\* the module level function: what it writes into the dictionary it is given
restoreFromParam_Dict(P) ==
    IF P.EvalMode = "Single"
    THEN [P EXCEPT !.CurrentPlotWindow = DataSetPlotWindow]
    ELSE IF P.isValidSeries
         THEN [getSliderInput(P, findIndex(P)) EXCEPT !.isValidFile = TRUE]
         ELSE [P EXCEPT !.isValidFile = FALSE]

restoreRaises(P) ==
    P.EvalMode = "Series" /\ P.isValidSeries /\ findIndexRaises(P)

\* getMinMaxInput: float(text) is stored if the extrema of the field are known
getMinMaxInput(P, axis, text) ==
    IF axis \in P.FieldMins THEN text ELSE P[axis \o "Min"]

\* getWidthInput: no store without a valid file, the domain width for ""
getWidthInput(P, text) ==
    IF ~P.isValidFile THEN P.HorWidth
    ELSE IF text = 0 THEN DomainWidth ELSE text

\* the live dictionary after SignalHandler.restoreFromParam_Dict(P): a copy
\* of P, overwritten by the slots of the widgets that the restore sets
restoredLive(P, sl) ==
    LET c == [P EXCEPT !.XMin = getMinMaxInput(P, "X", Fmt3g(P.XMin)),
                       !.ZMin = getMinMaxInput(P, "Z", Fmt3g(P.ZMin)),
                       !.HorWidth = getWidthInput(P, Fmt3g(P.HorWidth))]
    IN  IF P.EvalMode = "Series" /\ P.isValidSeries /\ sl # findIndex(P)
        THEN getSliderInput(c, findIndex(P))
        ELSE c

restoredSlider(P, sl) ==
    IF P.EvalMode = "Series" /\ P.isValidSeries THEN findIndex(P) ELSE sl

\* resetExtrema and setPlotOptions of setUpFile / setUpSeries
setUp(P) ==
    [P EXCEPT !.FieldMins = {},
              !.HorWidth = IF @ = 0 THEN DomainWidth ELSE @]

\* dialogs that are not modal leave the main window usable
DialogNotModal == uiPc = "idle"

\* setModal(True) of ProgressDialog and PlotAllDialog blocks the main window
MainWindowAcceptsInput == uiPc = "idle" /\ dialog = "none"

\* ------------------------------------------------------ evaluation mode
changeEvalMode ==
    /\ MainWindowAcceptsInput
    /\ LET toSingle == Param_Dict.EvalMode = "Series"
           given == IF toSingle THEN Single_Copy ELSE Series_Copy
           saved == [Param_Dict EXCEPT !.EvalMode = @]
       IN  /\ IF toSingle
              THEN /\ Series_Copy' = saved
                   /\ Single_Copy' = IF restoreRaises(given) THEN given
                                     ELSE restoreFromParam_Dict(given)
              ELSE /\ Single_Copy' = saved
                   /\ Series_Copy' = IF restoreRaises(given) THEN given
                                     ELSE restoreFromParam_Dict(given)
           /\ IF restoreRaises(given)
              THEN /\ Param_Dict' = given
                   /\ slider' = slider
                   /\ uiPc' = "aborted"
              ELSE /\ Param_Dict' = restoredLive(given, slider)
                   /\ slider' = restoredSlider(given, slider)
                   /\ uiPc' = uiPc
    /\ UNCHANGED <<dialog, plotAllDialog, progressDialog, worker, thread,
                   queue, windows, orphans, feedback, opCount, loads, edits>>

\* ---------------------------------------------------------------- loading
UILeaves == <<plotAllDialog, progressDialog, worker, thread, queue, orphans,
              feedback, opCount, edits>>

\* the Open button: testValidFile or testValidSeries by evaluation mode
openFile ==
    /\ MainWindowAcceptsInput
    /\ loads < MaxLoads
    /\ uiPc' = IF Param_Dict.EvalMode = "Single" THEN "filePrompt"
               ELSE "dirPrompt"
    /\ UNCHANGED <<Param_Dict, Single_Copy, Series_Copy, slider, dialog,
                   windows, loads, edits>>
    /\ UNCHANGED UILeaves

\* QFileDialog.getOpenFileName returned '' (the user cancelled)
testValidFileCancelled ==
    /\ uiPc = "filePrompt"
    /\ uiPc' = "idle"
    /\ UNCHANGED <<Param_Dict, Single_Copy, Series_Copy, slider, dialog,
                   windows, loads, edits>>
    /\ UNCHANGED UILeaves

\* a handler that gives up after the alert instead of asking again
GivesUp(prompt) == "idle"

\* except YTOutputNotIdentified: alertUser, then the same prompt again
\* (self.testValidFile() / return self.loadSeries(directory))
AfterFailedLoad(prompt) == prompt

\* yt.load raised YTOutputNotIdentified: alert, then the prompt again
testValidFileFailed ==
    /\ uiPc = "filePrompt"
    /\ loads < MaxLoads
    /\ loads' = loads + 1
    /\ uiPc' = AfterFailedLoad("filePrompt")
    /\ UNCHANGED <<Param_Dict, Single_Copy, Series_Copy, slider, dialog,
                   windows>>
    /\ UNCHANGED UILeaves

\* yt.load returned a dataset: the flags are set and setUpFile runs
testValidFileLoaded ==
    /\ uiPc = "filePrompt"
    /\ loads < MaxLoads
    /\ loads' = loads + 1
    /\ Param_Dict' = setUp([Param_Dict EXCEPT !.SingleDataSet = FileDataSet,
                                              !.CurrentDataSet = FileDataSet,
                                              !.Seriesname = "",
                                              !.Filename = FileName,
                                              !.isValidFile = TRUE,
                                              !.isValidSeries = FALSE])
    /\ uiPc' = "idle"
    /\ UNCHANGED <<Single_Copy, Series_Copy, slider, dialog, windows>>
    /\ UNCHANGED UILeaves

\* QFileDialog.getExistingDirectory: '' ends the handler, else loadSeries
testValidSeries ==
    /\ uiPc = "dirPrompt"
    /\ \E chosen \in BOOLEAN :
          uiPc' = IF chosen THEN "seriesPrompt" ELSE "idle"
    /\ UNCHANGED <<Param_Dict, Single_Copy, Series_Copy, slider, dialog,
                   windows, loads, edits>>
    /\ UNCHANGED UILeaves

\* askSeriesName returned ok = False
loadSeriesCancelled ==
    /\ uiPc = "seriesPrompt"
    /\ uiPc' = "idle"
    /\ Param_Dict' = [Param_Dict EXCEPT !.Seriesname = "No series selected"]
    /\ UNCHANGED <<Single_Copy, Series_Copy, slider, dialog,
                   windows, loads, edits>>
    /\ UNCHANGED UILeaves

\* yt.load raised YTOutputNotIdentified: alert, then loadSeries again
loadSeriesFailed ==
    /\ uiPc = "seriesPrompt"
    /\ loads < MaxLoads
    /\ loads' = loads + 1
    /\ uiPc' = AfterFailedLoad("seriesPrompt")
    /\ Param_Dict' = [Param_Dict EXCEPT !.Seriesname = EnteredName]
    /\ UNCHANGED <<Single_Copy, Series_Copy, slider, dialog, windows>>
    /\ UNCHANGED UILeaves

\* yt.load returned a series of n datasets: loadSeries sets both flags,
\* setUpSeries makes a plot window per dataset and sets the slider up
loadSeriesLoaded ==
    /\ uiPc = "seriesPrompt"
    /\ loads < MaxLoads
    /\ loads' = loads + 1
    /\ \E n \in 1 .. MaxLen :
          LET value == IF slider > n - 1 THEN n - 1 ELSE slider
              P == [Param_Dict EXCEPT !.Seriesname = EnteredName,
                                      !.Filename = "",
                                      !.isValidSeries = TRUE,
                                      !.isValidFile = TRUE,
                                      !.DataSeries = n,
                                      !.CurrentDataSet = SeriesDataSet(0)]
          IN  /\ Param_Dict' = getSliderInput(setUp(P), value)
              /\ slider' = value
    /\ windows' = [w \in Windows |->
                     IF w = DataSetPlotWindow THEN windows[w]
                     ELSE NewPlotWindow]
    /\ uiPc' = "idle"
    /\ UNCHANGED <<Single_Copy, Series_Copy, dialog>>
    /\ UNCHANGED UILeaves

\* yt.load returned one dataset, len(ts) raises TypeError: the radio button
\* switches to single file mode, then setUpFile reads CurrentDataSet.geometry
loadSeriesSingleFile ==
    /\ uiPc = "seriesPrompt"
    /\ loads < MaxLoads
    /\ loads' = loads + 1
    /\ LET P == [Param_Dict EXCEPT !.Seriesname = EnteredName,
                                   !.Filename = "",
                                   !.isValidSeries = TRUE,
                                   !.isValidFile = TRUE]
           toSingle == P.EvalMode = "Series"
           live == IF toSingle THEN restoredLive(Single_Copy, slider) ELSE P
           Q == [live EXCEPT !.SingleDataSet = LoneDataSet,
                             !.Filename = live.Seriesname,
                             !.Seriesname = "",
                             !.isValidFile = TRUE,
                             !.isValidSeries = FALSE]
       IN  /\ Series_Copy' = IF toSingle THEN P ELSE Series_Copy
           /\ Single_Copy' = IF toSingle
                             THEN restoreFromParam_Dict(Single_Copy)
                             ELSE Single_Copy
           /\ IF Q.CurrentDataSet = NoDataSet
              THEN Param_Dict' = Q /\ uiPc' = "aborted"
              ELSE Param_Dict' = setUp(Q) /\ uiPc' = "idle"
    /\ UNCHANGED <<slider, dialog, windows>>
    /\ UNCHANGED UILeaves

\* --------------------------------------------------- the worker's program
\* a plot function that returns without drawing onto the canvas
NeverDraws ==
    <<"libCreate", "cpModify", "libModify", "cpAnnotate", "libAnnotate",
      "cpStart", "prepareFigure", "cpDraw">>

\* a plot window that clears its figure before "Starting the plot"
ClearsBeforeStart ==
    <<"libCreate", "cpModify", "libModify", "cpAnnotate", "libAnnotate",
      "prepareFigure", "cpStart", "cpDraw", "draw">>

\* plots.py: SlicePlot, ProjectionPlot, LinePlot, PhasePlot up to makePlot
PlotSteps ==
    <<"libCreate", "cpModify", "libModify", "cpAnnotate", "libAnnotate",
      "cpStart", "prepareFigure", "cpDraw", "draw">>

\* plots.py: ProfilePlot and PlotWindow.makeProfilePlot
ProfileSteps ==
    <<"libCreate", "cpStart", "prepareFigure", "cpModify", "libModify",
      "cpDraw", "draw">>

StepsOf(mode) == IF mode = "Profile" THEN ProfileSteps ELSE PlotSteps

\* the positions where emitStatus / emitMultiStatus poll worker._isRunning
Checkpoints ==
    {"cpCreate", "cpModify", "cpAnnotate", "cpStart", "cpDraw", "cpFinish",
     "cpMulti"}

\* the positions where the worker thread reads or writes Param_Dict
StoreSteps ==
    {"getSliderInput", "libCreate", "libModify", "libAnnotate", "draw",
     "saveFigure", "setValue"}

Position(seq, pc) == CHOOSE k \in 1 .. Len(seq) : seq[k] = pc

\* what follows the last step of one plot function
AfterPlot(w) ==
    IF w.kind = "PlotSingle" THEN "cpFinish"
    ELSE IF plotAllDialog.Request_Dict.MakeMovie THEN "saveFigure"
    ELSE "cpMulti"

\* what follows step pc inside the plot function
Following(w, pc) ==
    LET seq == StepsOf(Param_Dict.PlotMode)
        k == Position(seq, pc)
    IN  IF k = Len(seq) THEN AfterPlot(w) ELSE seq[k + 1]

\* for j in range(Length): if i % onlyEvery == 0 (i always equals j)
NextIteration(w, j) ==
    IF j + plotAllDialog.Request_Dict.OnlyEvery
          < plotAllDialog.Request_Dict.Length
    THEN [w EXCEPT !.pc = "getSliderInput",
                   !.j = j + plotAllDialog.Request_Dict.OnlyEvery]
    ELSE [w EXCEPT !.pc = "setValue",
                   !.j = plotAllDialog.Request_Dict.Length - 1]

\* a checkpoint that does not look at the flag
NeverRaises(w) == FALSE

\* emitStatus: raise WorkingException unless worker._isRunning
ShouldRaise(w) == ~w._isRunning

\* an except clause that forgets self._isRunning = False
FlagLeftAlone(w, e) == w._isRunning

\* what the except clauses of plot() leave in worker._isRunning
AfterExcept(w, e) == IF e = "Exception" THEN FALSE ELSE w._isRunning

\* a plot() without its except clauses: the exception ends the slot
Uncaught(w, e) == [w EXCEPT !.pc = "done", !.exc = e]

\* an exception leaves evaluateSingle / evaluateMultiple for plot()'s handler
Raise(w, e) ==
    [w EXCEPT !.pc = "emitFinished", !.exc = e,
              !._isRunning = AfterExcept(w, e)]

WorkerLeaves == <<Single_Copy, Series_Copy, uiPc, dialog, plotAllDialog,
                  progressDialog, thread, orphans, feedback, opCount, loads, edits>>

\* sut.emitStatus(worker, message)
emitStatus ==
    /\ worker.pc \in Checkpoints \ {"cpMulti"}
    /\ IF ShouldRaise(worker)
       THEN /\ worker' = Raise(worker, "WorkingException")
            /\ queue' = queue
       ELSE /\ queue' = Append(queue, [sig |-> "progressUpdate"])
            /\ worker' =
                 [worker EXCEPT
                    !.pc = IF worker.pc = "cpCreate"
                           THEN IF worker.kind = "PlotSingle"
                                THEN "libCreate"
                                ELSE IF plotAllDialog.Request_Dict.Length = 0
                                     THEN "setValue" ELSE "getSliderInput"
                           ELSE IF worker.pc = "cpFinish" THEN "emitFinished"
                           ELSE Following(worker, worker.pc),
                    !.started = IF worker.pc = "cpStart"
                                THEN @ \cup {Param_Dict.CurrentPlotWindow}
                                ELSE @]
    /\ UNCHANGED <<Param_Dict, slider, windows>>
    /\ UNCHANGED WorkerLeaves

\* sut.emitMultiStatus(worker, i, plotnum), then the loop goes on
emitMultiStatus ==
    /\ worker.pc = "cpMulti"
    /\ IF ShouldRaise(worker)
       THEN /\ worker' = Raise(worker, "WorkingException")
            /\ queue' = queue
       ELSE /\ queue' = Append(queue, [sig |-> "multiProgress"])
            /\ worker' = NextIteration(worker, worker.j)
    /\ UNCHANGED <<Param_Dict, slider, windows>>
    /\ UNCHANGED WorkerLeaves

\* Param_Dict["SignalHandler"].getSliderInput(value=j, seriesEval=True)
workerGetSliderInput ==
    /\ worker.pc = "getSliderInput"
    /\ Param_Dict' = getSliderInput(Param_Dict, worker.j)
    /\ worker' = [worker EXCEPT !.pc = "libCreate"]
    /\ UNCHANGED <<slider, queue, windows>>
    /\ UNCHANGED WorkerLeaves

\* the axes limits that a plot made from P shows
xlimOf(P, old) ==
    IF P.PlotMode \in {"Slice", "Projection"}
    THEN [min |-> 0, width |-> P.HorWidth \div P.Zoom]
    ELSE IF P.PlotMode \in {"Phase", "Profile"}
         THEN [min |-> P.XMin, width |-> 0]
         ELSE old

\* a call into yt / matplotlib between two checkpoints; it may raise
libraryStep ==
    /\ worker.pc \in {"libCreate", "libModify", "libAnnotate"}
    /\ \E raises \in BOOLEAN :
          IF raises
          THEN worker' = Raise(worker, "Exception") /\ windows' = windows
          ELSE /\ worker' = [worker EXCEPT !.pc = Following(worker, worker.pc)]
               /\ windows' =
                    IF worker.pc = "libCreate" /\ Param_Dict.PlotMode = "Profile"
                    THEN [windows EXCEPT
                            ![Param_Dict.CurrentPlotWindow].arr = opCount]
                    ELSE windows
    /\ UNCHANGED <<Param_Dict, slider, queue>>
    /\ UNCHANGED WorkerLeaves

\* PlotWindow.startPlot / makeProfilePlot after "Starting the plot":
\* self.plot = plot and prepareFigure(), which clears the figure
prepareFigure ==
    /\ worker.pc = "prepareFigure"
    /\ windows' =
         [windows EXCEPT ![Param_Dict.CurrentPlotWindow] =
            [@ EXCEPT !.figure = [st |-> "cleared", op |-> opCount],
                      !.plot = IF Param_Dict.PlotMode = "Profile" THEN @
                               ELSE opCount]]
    /\ worker' = [worker EXCEPT !.pc = Following(worker, "prepareFigure")]
    /\ UNCHANGED <<Param_Dict, slider, queue>>
    /\ UNCHANGED WorkerLeaves

\* PlotWindow.copyParamDict: isValidPlot, the snapshot, the buttons
copyParamDict(win, P) ==
    [win EXCEPT !.Param_Dict = P, !.created = P, !.restoreSettings = TRUE]

\* canvas.draw() and copyParamDict at the end of makePlot / makeProfilePlot
draw ==
    /\ worker.pc = "draw"
    /\ \E raises \in BOOLEAN :
          IF raises
          THEN /\ worker' = Raise(worker, "Exception")
               /\ UNCHANGED <<windows, Param_Dict>>
          ELSE LET P == [Param_Dict EXCEPT !.isValidPlot = Param_Dict.PlotMode]
                   w == Param_Dict.CurrentPlotWindow
               IN  /\ Param_Dict' = P
                   /\ windows' =
                        [windows EXCEPT ![w] =
                           copyParamDict(
                              [@ EXCEPT !.figure = [st |-> "drawn",
                                                    op |-> opCount],
                                        !.xlim = xlimOf(P, @)], P)]
                   /\ worker' = [worker EXCEPT
                                   !.pc = AfterPlot(worker),
                                   !.plotted = Append(@, worker.j)]
    /\ UNCHANGED <<slider, queue>>
    /\ UNCHANGED WorkerLeaves

\* Param_Dict["CurrentPlotWindow"].saveFigure(saveName) of a movie
saveFigure ==
    /\ worker.pc = "saveFigure"
    /\ \E raises \in BOOLEAN :
          worker' = IF raises THEN Raise(worker, "Exception")
                    ELSE [worker EXCEPT !.pc = "cpMulti"]
    /\ UNCHANGED <<Param_Dict, slider, queue, windows>>
    /\ UNCHANGED WorkerLeaves

\* slider.setValue(j) after the loop; j is unbound if the loop never ran
setValue ==
    /\ worker.pc = "setValue"
    /\ IF plotAllDialog.Request_Dict.Length = 0
       THEN /\ worker' = Raise(worker, "Exception")
            /\ UNCHANGED <<Param_Dict, slider>>
       ELSE /\ worker' = [worker EXCEPT !.pc = "emitFinished"]
            /\ slider' = worker.j
            /\ Param_Dict' = IF slider = worker.j THEN Param_Dict
                             ELSE getSliderInput(Param_Dict, worker.j)
    /\ UNCHANGED <<queue, windows>>
    /\ UNCHANGED WorkerLeaves

\* self.finished.emit(self._isRunning): the last statement of plot()
emitFinished ==
    /\ worker.pc = "emitFinished"
    /\ queue' = Append(queue, [sig |-> "finished",
                               success |-> worker._isRunning,
                               feedback |-> progressDialog.feedbackConnected])
    /\ worker' = [worker EXCEPT !.pc = "done",
                                !.finishedLog = Append(@, worker._isRunning)]
    /\ UNCHANGED <<Param_Dict, slider, windows>>
    /\ UNCHANGED WorkerLeaves

\* ------------------------------------------------- starting an operation
\* sut.checkExtremaForPlot: calculate the extrema the plot mode needs;
\* calcMinMax writes the rounded minimum into the edit, whose slot stores it
NeededExtrema(mode) ==
    (IF mode \in {"Profile", "Phase"} THEN {"X"} ELSE {}) \cup
    (IF mode \notin {"Profile", "Line"} THEN {"Z"} ELSE {})

checkExtremaForPlot(P) ==
    LET missing == NeededExtrema(P.PlotMode) \ P.FieldMins
    IN  [P EXCEPT !.FieldMins = @ \cup missing,
                  !.XMin = IF "X" \in missing THEN FieldMin ELSE @,
                  !.ZMin = IF "Z" \in missing THEN FieldMin ELSE @]

\* ProgressDialog.determineProgressLength
determineProgressLength(P) == 6

WorkerAlive == worker.pc \notin {"idle", "done"}

\* ProgressDialog.__init__: the worker, its thread, thread.start(), show()
ProgressDialog(mode, P, plotNumber) ==
    /\ progressDialog' = [mode |-> mode, progressBar |-> 0,
                          length |-> determineProgressLength(P),
                          multipleProgressBar |-> 0, multiMax |-> plotNumber,
                          cancelButton |-> TRUE, feedbackConnected |-> FALSE]
    /\ worker' = [WorkerBase EXCEPT !.pc = "cpCreate", !.kind = mode,
                                    !.before = windows]
    /\ orphans' = IF WorkerAlive THEN orphans + 1 ELSE orphans
    /\ thread' = "running"
    /\ dialog' = "progress"
    /\ uiPc' = "evaluate"
    /\ opCount' = opCount + 1

\* a handler without its validity checks
NeverStopped(P) == FALSE

\* the two early returns of evaluateSingle
EvaluationStopped(P) ==
    \/ P.EvalMode = "Single" /\ ~P.isValidFile
    \/ P.EvalMode = "Series" /\ ~P.isValidSeries

\* the Evaluate button
evaluateSingle ==
    /\ MainWindowAcceptsInput
    /\ opCount < MaxOps
    /\ IF EvaluationStopped(Param_Dict)
       THEN UNCHANGED <<Param_Dict, progressDialog, worker, orphans,
                           thread, dialog, uiPc, opCount>>
       ELSE /\ Param_Dict' = checkExtremaForPlot(Param_Dict)
            /\ ProgressDialog("PlotSingle", Param_Dict', 0)
    /\ UNCHANGED <<Single_Copy, Series_Copy, slider, plotAllDialog, queue,
                   windows, feedback, loads, edits>>

\* self.progressWorker.finished.connect(self.give...Feedback): the statement
\* after the constructor of the dialog, which has started the thread
connectFeedback ==
    /\ uiPc = "evaluate"
    /\ uiPc' = "idle"
    /\ progressDialog' = [progressDialog EXCEPT !.feedbackConnected = TRUE]
    /\ UNCHANGED <<Param_Dict, Single_Copy, Series_Copy, slider, dialog,
                   plotAllDialog, worker, thread, queue, windows, orphans,
                   feedback, opCount, loads, edits>>

\* the Plot all button
openPlotAllDialog ==
    /\ MainWindowAcceptsInput
    /\ opCount < MaxPlotAll
    /\ IF ~Param_Dict.isValidSeries
       THEN UNCHANGED <<plotAllDialog, dialog>>
       ELSE /\ plotAllDialog' =
                 [plotAllDialog EXCEPT !.length = Param_Dict.DataSeries,
                                       !.onlyEvery = 1,
                                       !.plotNumber = Param_Dict.DataSeries,
                                       !.button = Param_Dict.DataSeries,
                                       !.makeMovie = FALSE]
            /\ dialog' = "plotAll"
    /\ UNCHANGED <<Param_Dict, Single_Copy, Series_Copy, slider, uiPc,
                   progressDialog, worker, thread, queue, windows, orphans,
                   feedback, opCount, loads, edits>>

\* PlotAllDialog: the spin box, its range is 1 .. length
getOnlyEveryInput ==
    /\ dialog = "plotAll"
    /\ \E value \in 1 .. plotAllDialog.length :
          plotAllDialog' =
             [plotAllDialog EXCEPT
                !.plotNumber = ceil(plotAllDialog.length, value),
                !.onlyEvery = value,
                !.button = ceil(plotAllDialog.length, value)]
    /\ UNCHANGED <<Param_Dict, Single_Copy, Series_Copy, slider, uiPc, dialog,
                   progressDialog, worker, thread, queue, windows, orphans,
                   feedback, opCount, loads, edits>>

\* PlotAllDialog: the movie check box
getMovieInput ==
    /\ dialog = "plotAll"
    /\ plotAllDialog' = [plotAllDialog EXCEPT !.makeMovie = ~@]
    /\ UNCHANGED <<Param_Dict, Single_Copy, Series_Copy, slider, uiPc, dialog,
                   progressDialog, worker, thread, queue, windows, orphans,
                   feedback, opCount, loads, edits>>

\* PlotAllDialog.cancelPressed: reject()
cancelPressed ==
    /\ dialog = "plotAll"
    /\ dialog' = "none"
    /\ UNCHANGED <<Param_Dict, Single_Copy, Series_Copy, slider, uiPc,
                   plotAllDialog, progressDialog, worker, thread, queue,
                   windows, orphans, feedback, opCount, loads, edits>>

\* PlotAllDialog.applyPressed: accept(), then evaluateMultiple(Request_Dict);
\* for a movie the folder prompt may be cancelled, which ends the handler
evaluateMultiple ==
    /\ dialog = "plotAll"
    /\ LET R == [OnlyEvery |-> plotAllDialog.onlyEvery,
                 Length |-> plotAllDialog.length,
                 MakeMovie |-> plotAllDialog.makeMovie,
                 PlotNumber |-> plotAllDialog.plotNumber]
       IN  /\ plotAllDialog' = [plotAllDialog EXCEPT !.Request_Dict = R]
           /\ \E folder \in BOOLEAN :
                 IF R.MakeMovie /\ ~folder
                 THEN /\ dialog' = "none"
                      /\ UNCHANGED <<Param_Dict, progressDialog, worker,
                                     orphans, thread, uiPc, opCount>>
                 ELSE /\ Param_Dict' = checkExtremaForPlot(Param_Dict)
                      /\ ProgressDialog("PlotAll", Param_Dict', R.PlotNumber)
    /\ UNCHANGED <<Single_Copy, Series_Copy, slider, queue, windows, feedback,
                   loads, edits>>

\* ------------------------------------------- the UI thread's event loop
EventLeaves == <<Param_Dict, Single_Copy, Series_Copy, slider, uiPc,
                 plotAllDialog, worker, windows, orphans, opCount, loads, edits>>

\* QProgressBar.setValue: a value outside the range leaves the bar as it is
setBar(value, maximum) == IF value > maximum THEN value - 1 ELSE value

\* ProgressDialog.updateProgress, the slot of worker.progressUpdate
updateProgress ==
    /\ uiPc = "idle" /\ dialog = "progress"
    /\ queue # <<>> /\ Head(queue).sig = "progressUpdate"
    /\ queue' = Tail(queue)
    /\ progressDialog' =
         [progressDialog EXCEPT
            !.progressBar = setBar(@ + 1, progressDialog.length)]
    /\ UNCHANGED <<dialog, thread, feedback>>
    /\ UNCHANGED EventLeaves

\* ProgressDialog.updateMultiProgress, the slot of worker.multiProgress
updateMultiProgress ==
    /\ uiPc = "idle" /\ dialog = "progress"
    /\ queue # <<>> /\ Head(queue).sig = "multiProgress"
    /\ queue' = Tail(queue)
    /\ progressDialog' =
         [progressDialog EXCEPT
            !.multipleProgressBar = setBar(@ + 1, progressDialog.multiMax),
            !.progressBar = 0]
    /\ UNCHANGED <<dialog, thread, feedback>>
    /\ UNCHANGED EventLeaves

\* the slots of worker.finished: the dialog closes, closeEvent quits the
\* thread, then the feedback slot runs if it was connected at the emission
closeEvent ==
    /\ uiPc = "idle" /\ dialog = "progress"
    /\ queue # <<>> /\ Head(queue).sig = "finished"
    /\ queue' = Tail(queue)
    /\ dialog' = "none"
    /\ thread' = "quit"
    /\ feedback' = IF Head(queue).feedback
                   THEN Append(feedback, Head(queue).success)
                   ELSE feedback
    /\ UNCHANGED progressDialog
    /\ UNCHANGED EventLeaves

\* ProgressDialog.stopProcess up to the read of the parameter store:
\* the Cancel button or the Escape key
stopProcess ==
    /\ uiPc = "idle" /\ dialog = "progress"
    /\ uiPc' = "stopProcess"
    /\ progressDialog' = [progressDialog EXCEPT !.cancelButton = FALSE]
    /\ UNCHANGED <<Param_Dict, Single_Copy, Series_Copy, slider, dialog,
                   plotAllDialog, worker, thread, queue, windows, orphans,
                   feedback, opCount, loads, edits>>

\* the rest of stopProcess: Param_Dict["CurrentPlotWindow"] is read, the
\* buttons of that window are disabled and worker._isRunning becomes False
stopProcessFlag ==
    /\ uiPc = "stopProcess"
    /\ windows' = [windows EXCEPT
                     ![Param_Dict.CurrentPlotWindow].restoreSettings = FALSE]
    /\ worker' = [worker EXCEPT !._isRunning = FALSE]
    /\ uiPc' = "idle"
    /\ UNCHANGED <<Param_Dict, Single_Copy, Series_Copy, slider, dialog,
                   plotAllDialog, progressDialog, thread, queue, orphans,
                   feedback, opCount, loads, edits>>

\* ------------------------------------------------ the plot settings
EditLeaves == <<Single_Copy, Series_Copy, uiPc, dialog, plotAllDialog,
                progressDialog, worker, thread, queue, orphans, feedback,
                opCount, loads>>

\* the radio buttons of the plot mode (changeTo<Mode>)
changePlotMode ==
    /\ MainWindowAcceptsInput
    /\ edits < MaxEdits
    /\ edits' = edits + 1
    /\ \E mode \in PlotModes :
          /\ mode # Param_Dict.PlotMode
          /\ Param_Dict' = [Param_Dict EXCEPT !.PlotMode = mode]
    /\ UNCHANGED <<slider, windows>>
    /\ UNCHANGED EditLeaves

\* the slider of the series: SignalHandler.getSliderInput()
moveSlider ==
    /\ MainWindowAcceptsInput
    /\ UNCHANGED edits
    /\ Param_Dict.EvalMode = "Series" /\ Param_Dict.isValidSeries
    /\ \E value \in 0 .. (Param_Dict.DataSeries - 1) :
          /\ value # slider
          /\ slider' = value
          /\ Param_Dict' = getSliderInput(Param_Dict, value)
    /\ UNCHANGED windows
    /\ UNCHANGED EditLeaves

\* the Timestamp check box: getAnnotationInput("Timestamp")
getAnnotationInput ==
    /\ MainWindowAcceptsInput
    /\ edits < MaxEdits
    /\ edits' = edits + 1
    /\ Param_Dict' = [Param_Dict EXCEPT !.Timestamp = ~@]
    /\ UNCHANGED <<slider, windows>>
    /\ UNCHANGED EditLeaves

\* typing into the XMin or ZMin edit: getExtremaInput(axis, "Min")
getExtremaInput ==
    /\ MainWindowAcceptsInput
    /\ edits < MaxEdits
    /\ edits' = edits + 1
    /\ \/ \E text \in XMinInputs :
             Param_Dict' = [Param_Dict EXCEPT
                              !.XMin = getMinMaxInput(Param_Dict, "X", text)]
       \/ \E text \in ZMinInputs :
             Param_Dict' = [Param_Dict EXCEPT
                              !.ZMin = getMinMaxInput(Param_Dict, "Z", text)]
    /\ Param_Dict' # Param_Dict
    /\ UNCHANGED <<slider, windows>>
    /\ UNCHANGED EditLeaves

\* typing into the HorWidth edit or the Zoom edit
getWidthOrZoomInput ==
    /\ MainWindowAcceptsInput
    /\ edits < MaxEdits
    /\ edits' = edits + 1
    /\ \/ \E text \in WidthInputs :
             Param_Dict' = [Param_Dict EXCEPT
                              !.HorWidth = getWidthInput(Param_Dict, text)]
       \/ \E text \in ZoomInputs :
             Param_Dict' = [Param_Dict EXCEPT !.Zoom = text]
    /\ Param_Dict' # Param_Dict
    /\ UNCHANGED <<slider, windows>>
    /\ UNCHANGED EditLeaves

\* the window on screen is Param_Dict["CurrentPlotWindow"]
Shown == Param_Dict.CurrentPlotWindow

\* panning or zooming the drawn plot with the matplotlib toolbar
toolbarView ==
    /\ MainWindowAcceptsInput
    /\ edits < MaxEdits
    /\ edits' = edits + 1
    /\ windows[Shown].figure.st = "drawn"
    /\ \/ windows' = [windows EXCEPT ![Shown].xlim.min = PanXMin]
       \/ windows' = [windows EXCEPT ![Shown].xlim.width = PanWidth]
    /\ windows' # windows
    /\ UNCHANGED <<Param_Dict, slider>>
    /\ UNCHANGED EditLeaves

\* a restore that does not read the axes of the plot
KeepsSnapshot(win) == win.Param_Dict

\* PlotWindow.readOutExtrema: the limits on screen go into the snapshot
readOutExtrema(win) ==
    LET P == win.Param_Dict
    IN  IF P.PlotMode \in {"Profile", "Phase"}
        THEN [P EXCEPT !.XMin = win.xlim.min]
        ELSE IF P.PlotMode \in {"Slice", "Projection"}
             THEN [P EXCEPT !.HorWidth = win.xlim.width, !.Zoom = 1]
             ELSE P

\* the "Restore plot settings" button: PlotWindow.restoreFromParam_Dict
restoreSettings ==
    /\ MainWindowAcceptsInput
    /\ windows[Shown].restoreSettings
    /\ LET P == readOutExtrema(windows[Shown])
       IN  IF restoreRaises(P)
           THEN /\ Param_Dict' = P
                /\ windows' = [windows EXCEPT ![Shown].Param_Dict = P]
                /\ slider' = slider
                /\ uiPc' = "aborted"
           ELSE /\ Param_Dict' = restoredLive(P, slider)
                /\ windows' = [windows EXCEPT
                                 ![Shown].Param_Dict = restoreFromParam_Dict(P)]
                /\ slider' = restoredSlider(P, slider)
                /\ uiPc' = uiPc
    /\ UNCHANGED <<Single_Copy, Series_Copy, dialog, plotAllDialog,
                   progressDialog, worker, thread, queue, orphans, feedback,
                   opCount, loads, edits>>

\* --------------------------------------------------------- specifications
Loading ==
    \/ openFile
    \/ testValidFileCancelled
    \/ testValidFileFailed
    \/ testValidFileLoaded
    \/ testValidSeries
    \/ loadSeriesCancelled
    \/ loadSeriesFailed
    \/ loadSeriesLoaded
    \/ loadSeriesSingleFile

WorkerStep ==
    \/ emitStatus
    \/ emitMultiStatus
    \/ workerGetSliderInput
    \/ libraryStep
    \/ prepareFigure
    \/ draw
    \/ saveFigure
    \/ setValue
    \/ emitFinished

EventLoop ==
    \/ updateProgress
    \/ updateMultiProgress
    \/ closeEvent

Cancelling ==
    \/ stopProcess
    \/ stopProcessFlag

Settings ==
    \/ getAnnotationInput
    \/ getExtremaInput
    \/ getWidthOrZoomInput
    \/ toolbarView
    \/ restoreSettings

FileLoading ==
    \/ openFile
    \/ testValidFileCancelled
    \/ testValidFileFailed
    \/ testValidFileLoaded

SingleWorkerStep ==
    \/ emitStatus
    \/ libraryStep
    \/ prepareFigure
    \/ draw
    \/ emitFinished

\* single file mode: loading files, choosing a plot mode, plotting, cancelling
Next ==
    \/ changePlotMode
    \/ FileLoading
    \/ evaluateSingle
    \/ connectFeedback
    \/ SingleWorkerStep
    \/ updateProgress
    \/ closeEvent
    \/ Cancelling

\* both evaluation modes with the plot mode of the start: series, plot all
NextSeries ==
    \/ changeEvalMode
    \/ moveSlider
    \/ Loading
    \/ connectFeedback
    \/ openPlotAllDialog
    \/ getOnlyEveryInput
    \/ getMovieInput
    \/ cancelPressed
    \/ evaluateMultiple
    \/ WorkerStep
    \/ EventLoop
    \/ Cancelling

\* both evaluation modes, single plots and plot all, without cancelling
NextModes ==
    \/ changeEvalMode
    \/ Loading
    \/ evaluateSingle
    \/ connectFeedback
    \/ openPlotAllDialog
    \/ getOnlyEveryInput
    \/ cancelPressed
    \/ evaluateMultiple
    \/ emitStatus
    \/ emitMultiStatus
    \/ workerGetSliderInput
    \/ libraryStep
    \/ prepareFigure
    \/ draw
    \/ setValue
    \/ emitFinished
    \/ EventLoop

\* single file mode with the plot settings and the plot window's buttons
NextSettings ==
    \/ changePlotMode
    \/ openFile
    \/ testValidFileLoaded
    \/ evaluateSingle
    \/ connectFeedback
    \/ SingleWorkerStep
    \/ updateProgress
    \/ closeEvent
    \/ Settings

\* switching the mode, loading and editing the settings, without plots
NextRoundTrip ==
    \/ changeEvalMode
    \/ moveSlider
    \/ Loading
    \/ changePlotMode
    \/ getAnnotationInput
    \/ getWidthOrZoomInput

Spec == Init /\ [][Next]_vars

SpecRoundTrip == Init /\ [][NextRoundTrip]_vars

SpecSeries == Init /\ [][NextSeries]_vars

SpecModes == Init /\ [][NextModes]_vars

SpecSettings == Init /\ [][NextSettings]_vars

\* the worker's thread runs while it has a step to take and calls into yt
\* and matplotlib return or raise; the UI thread returns from the handler it
\* is in; Qt's event queue is first in first out, so a queued signal is
\* delivered however often the user presses Escape in between
FairSpec ==
    /\ Spec
    /\ WF_vars(SingleWorkerStep)
    /\ SF_vars(updateProgress \/ closeEvent)
    /\ WF_vars(connectFeedback)
    /\ WF_vars(stopProcessFlag)

\* ------------------------------------------------------------------ claims
Succeeded == worker.pc = "done" /\ worker.finishedLog = <<TRUE>>
Failed == worker.pc = "done" /\ worker.finishedLog = <<FALSE>>

\* C1: cancellation is cooperative. WorkingException arises only at a
\* checkpoint reached with the flag cleared; a checkpoint reached with the
\* flag cleared raises it, emits nothing and touches no plot window; setting
\* the flag does not move the worker, which finishes the step it is in.
C1_CancellationIsCooperative ==
    [][/\ (worker.exc = "none" /\ worker'.exc = "WorkingException")
            => (worker.pc \in Checkpoints /\ ~worker._isRunning)
       /\ (/\ worker.pc \in Checkpoints /\ ~worker._isRunning
           /\ worker'.pc # worker.pc /\ opCount' = opCount)
            => /\ worker'.exc = "WorkingException"
               /\ worker'.pc = "emitFinished"
               /\ queue' = queue /\ windows' = windows
       /\ (worker._isRunning /\ ~worker'._isRunning /\ worker'.exc = "none")
            => worker'.pc = worker.pc
      ]_vars

\* the cancel was noticed only after the figure had been cleared
C1_Witness ==
    /\ worker.exc = "WorkingException"
    /\ worker.started # {}
    /\ windows[Shown].figure.st = "cleared"

\* C2: at most one worker is alive: no worker is replaced while it runs, and
\* while a worker runs the modal progress dialog is open on its thread.
C2_AtMostOneWorker ==
    /\ orphans = 0
    /\ WorkerAlive => (dialog = "progress" /\ thread = "running")

\* the second operation of the behaviour is in flight
C2_Witness == opCount = 2 /\ WorkerAlive /\ worker.pc = "draw"

C5_FinishedExactlyOnce ==
    /\ Len(worker.finishedLog) = (IF worker.pc = "done" THEN 1 ELSE 0)
    /\ (worker.pc = "done" /\ worker.exc # "none") => ~worker.finishedLog[1]
    /\ Len(SelectSeq(queue, LAMBDA m : m.sig = "finished")) <= 1

\* a yt exception was caught and reported as a failure
C5_Witness ==
    /\ worker.pc = "done" /\ worker.exc = "Exception"
    /\ worker.finishedLog = <<FALSE>>
    /\ dialog = "none" /\ feedback # <<>>

\* C3 as the specification states it: the UI thread and the worker thread
\* never access the parameter store at the same time, cancel included.
\* stopProcess is about to read Param_Dict["CurrentPlotWindow"] while the
\* worker is about to read or write the same dictionary.
C3_StoreNeverShared ==
    ~(uiPc = "stopProcess" /\ WorkerAlive /\ worker.pc \in StoreSteps)

\* C6: a prompt is left only by a load that succeeded (the flag of the
\* evaluation mode is then true) or by the user cancelling (nothing changed
\* but the series name, which reads "No series selected"),
\* so a failed load asks again; and a validity flag that is false in the
\* live dictionary and in both copies becomes true only in the step of a
\* prompt that counts a load and ends the prompt.
ValidFileSomewhere ==
    Param_Dict.isValidFile \/ Single_Copy.isValidFile \/ Series_Copy.isValidFile
ValidSeriesSomewhere ==
    \/ Param_Dict.isValidSeries
    \/ Single_Copy.isValidSeries
    \/ Series_Copy.isValidSeries

C6_RepromptUntilLoaded ==
    [][/\ (uiPc = "filePrompt" /\ uiPc' # "filePrompt")
            => \/ loads' = loads + 1 /\ Param_Dict'.isValidFile
                  /\ Param_Dict'.CurrentDataSet = FileDataSet
               \/ UNCHANGED <<Param_Dict, loads>> /\ uiPc' = "idle"
       /\ (uiPc = "seriesPrompt" /\ uiPc' # "seriesPrompt")
            => \/ loads' = loads + 1 /\ Param_Dict'.isValidSeries
                  /\ Param_Dict'.DataSeries > 0
               \/ loads' = loads + 1 /\ Param_Dict'.isValidFile
                  /\ Param_Dict'.SingleDataSet = LoneDataSet
               \/ /\ Param_Dict' = [Param_Dict EXCEPT
                                      !.Seriesname = "No series selected"]
                  /\ loads' = loads /\ uiPc' = "idle"
       /\ (~ValidFileSomewhere /\ ValidFileSomewhere')
            => /\ uiPc \in {"filePrompt", "seriesPrompt"}
               /\ uiPc' \in {"idle", "aborted"} /\ loads' = loads + 1
       /\ (~ValidSeriesSomewhere /\ ValidSeriesSomewhere')
            => /\ uiPc = "seriesPrompt"
               /\ uiPc' \in {"idle", "aborted"} /\ loads' = loads + 1
      ]_vars

\* a series name failed to load and the prompt is open again
C6_Witness ==
    /\ uiPc = "seriesPrompt" /\ loads = 1
    /\ ~ValidFileSomewhere /\ ~ValidSeriesSomewhere

\* C8: a plot-all that reports success has plotted the indices 0, OnlyEvery,
\* 2 OnlyEvery, ... below Length in this order, PlotNumber of them, where
\* PlotNumber = ceil(Length / OnlyEvery) is the number on the accept button;
\* once its dialog has closed the multi-plot bar stands at its maximum.
C8_PlotAllPlotsEveryNth ==
    (worker.kind = "PlotAll" /\ Succeeded) =>
       LET R == plotAllDialog.Request_Dict
       IN  /\ Len(worker.plotted) = R.PlotNumber
           /\ \A k \in 1 .. Len(worker.plotted) :
                 /\ worker.plotted[k] = (k - 1) * R.OnlyEvery
                 /\ worker.plotted[k] < R.Length
           /\ Len(worker.plotted) * R.OnlyEvery >= R.Length
           /\ plotAllDialog.button = R.PlotNumber
           /\ dialog = "none" =>
                 /\ progressDialog.multiMax = R.PlotNumber
                 /\ progressDialog.multipleProgressBar = progressDialog.multiMax

\* three datasets, every second one: the plots 0 and 2
C8_Witness ==
    /\ worker.kind = "PlotAll" /\ Succeeded /\ dialog = "none"
    /\ plotAllDialog.Request_Dict.Length = 3
    /\ plotAllDialog.Request_Dict.OnlyEvery = 2
    /\ worker.plotted = <<0, 2>>

\* C10: a worker is created only when the flags are valid for the mode: a
\* single plot needs isValidFile in single file mode and isValidSeries in
\* series mode, a plot-all needs isValidSeries; the flags stay so while the
\* worker is alive.
ValidForWorker(kind, P) ==
    IF kind = "PlotAll" THEN P.isValidSeries
    ELSE /\ P.EvalMode = "Single" => P.isValidFile
         /\ P.EvalMode = "Series" => P.isValidSeries

C10_WorkerNeedsValidData ==
    [][/\ opCount' = opCount + 1 => ValidForWorker(worker'.kind, Param_Dict)
       /\ WorkerAlive' => ValidForWorker(worker'.kind, Param_Dict')
      ]_vars

\* a plot-all of a loaded series and a single plot in series mode
C10_Witness ==
    /\ WorkerAlive /\ opCount = 2 /\ worker.kind = "PlotSingle"
    /\ Param_Dict.EvalMode = "Series" /\ Param_Dict.isValidSeries
    /\ plotAllDialog.Request_Dict.Length > 0

\* C7: every operation that was started ends: the worker emits finished, the
\* dialog closes, closeEvent quits the thread and the main window accepts
\* input again, whether the plot succeeds, is cancelled or raises.
C7_OperationEnds ==
    (thread = "running")
       ~> (thread = "quit" /\ worker.pc = "done" /\ MainWindowAcceptsInput)

\* a cancelled operation whose dialog has closed and whose thread has quit
C7_Witness ==
    /\ thread = "quit" /\ dialog = "none"
    /\ worker.pc = "done" /\ worker.exc = "WorkingException"

\* C9 as amended: "Restore plot settings" sets the plot mode and the check
\* boxes to their values at the creation of the plot, and the numeric limits
\* to those values rounded to three significant digits; the parameters of
\* the view are not restored but read from the axes on screen: XMin for
\* profile and phase plots, HorWidth (with Zoom = 1) for slices and
\* projections.
Rounded(value, created) == value = created \/ value = Fmt3g(created)

C11_FeedbackExactlyOnce ==
    (worker.pc = "done" /\ thread = "quit") =>
       /\ Len(feedback) = opCount
       /\ feedback[opCount] = worker.finishedLog[1]

\* C12 as amended: a single plot that reports success has been drawn and its
\* snapshot stored by this operation; a single plot that was drawn and
\* stored is reported as a failure only if no yt exception occurred and a
\* cancel cleared the flag before finished was emitted: the "Finishing"
\* checkpoint then raises, or the emission itself carries the cleared flag.
DrawnAndStored ==
    /\ worker.plotted # <<>>
    /\ windows[Param_Dict.CurrentPlotWindow].figure
          = [st |-> "drawn", op |-> opCount]
    /\ windows[Param_Dict.CurrentPlotWindow].created.isValidPlot
          = windows[Param_Dict.CurrentPlotWindow].created.PlotMode

C12_SuccessImpliesDrawn ==
    (worker.kind = "PlotSingle" /\ worker.pc = "done") =>
       /\ Succeeded => DrawnAndStored
       /\ (Failed /\ DrawnAndStored) =>
             (worker.exc # "Exception" /\ ~worker._isRunning)

\* the plot is on screen with its snapshot, the operation reported a failure
C12_Witness ==
    /\ worker.kind = "PlotSingle" /\ Failed /\ DrawnAndStored
    /\ worker.exc = "WorkingException"

\* C12 as the specification states it: a single plot reports success exactly
\* when it was drawn and stored, a late cancel notwithstanding.
C12_SuccessIffDrawn ==
    (worker.kind = "PlotSingle" /\ worker.pc = "done") =>
       (Succeeded <=> DrawnAndStored)

\* C15 as the specification states it: when a single plot has succeeded and
\* its dialog has closed, every progress update has been delivered and the
\* progress bar stands exactly at the maximum that determineProgressLength
\* computed.
C15_BarFullAtFinish ==
    (worker.kind = "PlotSingle" /\ Succeeded /\ dialog = "none") =>
       progressDialog.progressBar = progressDialog.length

\* C13 as the specification states it: a series name that matches a single
\* dataset ends in single file mode with that dataset as the current one,
\* Filename equal to the entered name, isValidFile true and isValidSeries
\* false in the live parameter store, and the handler returns.
C13_LoneDataSetBecomesCurrent ==
    [][loadSeriesSingleFile =>
          /\ Param_Dict'.EvalMode = "Single"
          /\ Param_Dict'.SingleDataSet = LoneDataSet
          /\ Param_Dict'.CurrentDataSet = LoneDataSet
          /\ Param_Dict'.Filename = EnteredName
          /\ Param_Dict'.isValidFile /\ ~Param_Dict'.isValidSeries
          /\ uiPc' = "idle"
      ]_vars

\* C14 as the specification states it: switching the evaluation mode stores
\* the live parameters as the copy of the mode that is left and makes the
\* copy of the other mode the live parameters, value for value, and nothing
\* done within one mode touches the copy of the other mode; so a switch to
\* the other mode and back restores every parameter of the mode that was left.
C14_ModeRoundTrip ==
    [][/\ changeEvalMode =>
             /\ Param_Dict' = (IF Param_Dict.EvalMode = "Series"
                               THEN Single_Copy ELSE Series_Copy)
             /\ (IF Param_Dict.EvalMode = "Series"
                 THEN Series_Copy' ELSE Single_Copy') = Param_Dict
             /\ uiPc' = uiPc
       /\ Param_Dict'.EvalMode = Param_Dict.EvalMode =>
             IF Param_Dict.EvalMode = "Series"
             THEN Single_Copy' = Single_Copy
             ELSE Series_Copy' = Series_Copy
      ]_vars

====
